---- MODULE Spec2Model ----
(***************************************************************************)
(* Model of the HL7 unbundler worker (src/docker/Hl7UnbundlerService.py):  *)
(* the recursive flatten_json transform, flatten_file's table building,    *)
(* and the process_files loop over SQS messages, S3 objects and the local  *)
(* file system.                                                            *)
(*                                                                         *)
(* JSON values are tagged records.  Strings and dictionary keys are        *)
(* sequences of one-character strings, so that concatenation, slicing and  *)
(* str.replace are computed character by character.  A Python 2 dict has   *)
(* unique keys and an implementation-defined iteration order: an object is *)
(* a sequence of fields with distinct names, in the order `for a in x`     *)
(* visits them, and the model's inputs range over every such order.        *)
(***************************************************************************)
EXTENDS Integers, Sequences, FiniteSets, TLC

VARIABLES
    arg,        \* the argument of the function under study (flatten_json, flatten_file)
    ret,        \* its return value, NotCalled before the call
    env,        \* os.environ: the names of the settings that are set
    pc,         \* position of the process: "load" (the module's top-level code
                \* has not run), "start", "loop", "crashed" (ended by an
                \* exception), "exited" (main returned); "idle" where only a
                \* pure function is studied
    msgs,       \* the SQS queue: message id -> [state, body]
    batch,      \* process_files: the messages of the current poll not yet handled
    fs,         \* the local file system: path -> content, NoFile when absent
    outBucket,  \* the output bucket: 'flattened/' + outFileName -> content
    last        \* what the last iteration of process_files' loop did

vars == <<arg, ret, env, pc, msgs, batch, fs, outBucket, last>>
pureVars == <<arg, ret>>
workerVars == <<env, pc, msgs, batch, fs, outBucket, last>>

----------------------------------------------------------------------------
(* Bounds *)

MaxNodes == 4       \* nodes (collections and scalars) of an Entry tree
MaxStrLen == 3      \* characters of a string leaf
MaxEntries == 2     \* entries of a document's "entry" array
NumMsgs == 2        \* messages ever sent to the queue
MaxCalls == 3       \* successive calls of flatten_json in one process

----------------------------------------------------------------------------
(* JSON values *)

LF == "\n"
CR == "\r"

JStr(s) == [t |-> "str", s |-> s]
JNum(n) == [t |-> "num", n |-> n]
JBool(b) == [t |-> "bool", b |-> b]
JNull == [t |-> "null"]
JArr(items) == [t |-> "arr", a |-> items]
JObj(fields) == [t |-> "obj", f |-> fields]
Field(k, v) == [k |-> k, v |-> v]

IsScalar(x) == x.t \in {"str", "num", "bool", "null"}

NotCalled == [t |-> "notcalled"]

----------------------------------------------------------------------------
(* flatten_json *)

\* s.replace(old, ''): the non-overlapping occurrences of old, scanned from
\* the left, are removed.
RECURSIVE Replace(_, _)
Replace(s, old) ==
    IF Len(s) < Len(old) THEN s
    ELSE IF SubSeq(s, 1, Len(old)) = old
         THEN Replace(SubSeq(s, Len(old) + 1, Len(s)), old)
         ELSE <<Head(s)>> \o Replace(Tail(s), old)

\* A plausible slip: the third replace is left out.
StripNewlinesNoCR(s) == Replace(Replace(s, <<LF>>), <<CR, LF>>)

\* x.replace('\n', '').replace('\r\n', '').replace('\r', '')
StripNewlines(s) == Replace(Replace(Replace(s, <<LF>>), <<CR, LF>>), <<CR>>)

Digit(d) == CASE d = 0 -> "0" [] d = 1 -> "1" [] d = 2 -> "2" [] d = 3 -> "3"
              [] d = 4 -> "4" [] d = 5 -> "5" [] d = 6 -> "6" [] d = 7 -> "7"
              [] d = 8 -> "8" [] d = 9 -> "9"

\* str(i) for i >= 0
RECURSIVE PyStr(_)
PyStr(i) == IF i < 10 THEN <<Digit(i)>> ELSE PyStr(i \div 10) \o <<Digit(i % 10)>>

\* A plausible slip: the trailing separator is not stripped.
LeafKeyKeepSep(name) == name

\* name[:-1]
LeafKey(name) == IF Len(name) = 0 THEN <<>> ELSE SubSeq(name, 1, Len(name) - 1)

\* out[key] = value
DictSet(out, key, value) ==
    [k \in DOMAIN out \cup {key} |-> IF k = key THEN value ELSE out[k]]

EmptyDict == [k \in {} |-> JNull]

RECURSIVE flatten(_, _, _), FlattenFields(_, _, _, _), FlattenItems(_, _, _, _)

\* for a in x: flatten(x[a], name + a + '_'), from the i-th field on
FlattenFields(fields, i, name, out) ==
    IF i > Len(fields) THEN out
    ELSE FlattenFields(fields, i + 1, name,
                       flatten(fields[i].v, name \o fields[i].k \o <<"_">>, out))

\* for a in x: flatten(a, name + str(i) + '_'); i += 1, from the i-th item on
\* (i counts from 1 here, Python's index is i - 1)
FlattenItems(items, i, name, out) ==
    IF i > Len(items) THEN out
    ELSE FlattenItems(items, i + 1, name,
                      flatten(items[i], name \o PyStr(i - 1) \o <<"_">>, out))

\* A plausible slip: an empty list is not recognised as a list (`elif x and
\* type(x) is list`) and is stored like a scalar.
flattenEmptyListAsLeaf(x, name, out) ==
    IF x.t = "obj" THEN FlattenFields(x.f, 1, name, out)
    ELSE IF x.t = "arr" /\ Len(x.a) > 0 THEN FlattenItems(x.a, 1, name, out)
    ELSE IF x.t = "str" THEN DictSet(out, LeafKey(name), JStr(StripNewlines(x.s)))
    ELSE DictSet(out, LeafKey(name), x)

\* the inner function flatten(x, name); `out` is the enclosing dictionary,
\* passed and returned
flatten(x, name, out) ==
    IF x.t = "obj" THEN FlattenFields(x.f, 1, name, out)
    ELSE IF x.t = "arr" THEN FlattenItems(x.a, 1, name, out)
    ELSE IF x.t = "str" THEN DictSet(out, LeafKey(name), JStr(StripNewlines(x.s)))
    ELSE DictSet(out, LeafKey(name), x)

\* A plausible slip: `out` is created once (a module-level dictionary or a
\* mutable default argument) instead of inside the call, so a call starts
\* from what the call before it returned.
flatten_jsonSharedOut(y) ==
    flatten(y, <<>>, IF ret = <<>> THEN EmptyDict ELSE ret[Len(ret)])

\* line 198, `out = {}`: every call starts from a new empty dictionary
flatten_json(y) == flatten(y, <<>>, EmptyDict)

----------------------------------------------------------------------------
(* flatten_file: from the parsed document to the table *)

Raised == [t |-> "raised"]
NotJson == [t |-> "notjson"]

EntryKey == <<"e", "n", "t", "r", "y">>

\* json.load(data_file): the parsed document, or ValueError
json_load(content) == IF content = NotJson THEN Raised ELSE content

\* data["entry"]: KeyError when the key is absent, TypeError when data is
\* not a dict (a list wants integer indices, a scalar has no items)
GetEntry(data) ==
    IF data.t = "obj" /\ \E i \in 1..Len(data.f) : data.f[i].k = EntryKey
    THEN data.f[CHOOSE i \in 1..Len(data.f) : data.f[i].k = EntryKey].v
    ELSE Raised

Iter(items) == [t |-> "iter", items |-> items]

\* `for entry in v`: a list yields its items, a dict its keys, a string its
\* characters (each a string); a number, a boolean or None is not iterable
\* (TypeError)
IterEntries(v) ==
    IF v.t = "arr" THEN Iter(v.a)
    ELSE IF v.t = "obj" THEN Iter([i \in 1..Len(v.f) |-> JStr(v.f[i].k)])
    ELSE IF v.t = "str" THEN Iter([i \in 1..Len(v.s) |-> JStr(<<v.s[i]>>)])
    ELSE Raised

\* the code point of a character of the model's alphabets
Ord(c) == CASE c = LF -> 10 [] c = CR -> 13 [] c = "." -> 46
            [] c = "0" -> 48 [] c = "1" -> 49 [] c = "2" -> 50 [] c = "3" -> 51
            [] c = "4" -> 52 [] c = "5" -> 53 [] c = "6" -> 54 [] c = "7" -> 55
            [] c = "8" -> 56 [] c = "9" -> 57 [] c = "_" -> 95 [] c = "a" -> 97
            [] c = "b" -> 98 [] c = "e" -> 101 [] c = "n" -> 110 [] c = "r" -> 114
            [] c = "t" -> 116 [] c = "x" -> 120 [] c = "y" -> 121

RECURSIVE StrLeq(_, _)
\* u <= v for two unicode strings (code point by code point)
StrLeq(u, v) ==
    IF Len(u) = 0 THEN TRUE
    ELSE IF Len(v) = 0 THEN FALSE
    ELSE IF Ord(Head(u)) # Ord(Head(v)) THEN Ord(Head(u)) < Ord(Head(v))
    ELSE StrLeq(Tail(u), Tail(v))

RECURSIVE Sorted(_)
\* the strings of S in ascending order
Sorted(S) ==
    IF S = {} THEN <<>>
    ELSE LET m == CHOOSE u \in S : \A v \in S : StrLeq(u, v)
         IN <<m>> \o Sorted(S \ {m})

NaN == [t |-> "nan"]
DataFrame(columns, rows) == [t |-> "table", columns |-> columns, rows |-> rows]

\* A plausible slip: the columns are taken from the first record alone.
json_normalizeFirstRecordColumns(records) ==
    IF Len(records) = 0 THEN DataFrame(<<>>, <<>>)
    ELSE LET columns == Sorted(DOMAIN records[1])
         IN DataFrame(columns,
                      [i \in 1..Len(records) |->
                          [c \in DOMAIN records[1] |->
                              IF c \in DOMAIN records[i] THEN records[i][c] ELSE NaN]])

\* pd.json_normalize(entries) for a list of flat dicts is DataFrame(entries)
\* (DataFrame() for the empty list).  This is Python 2 code (`unicode`,
\* urllib.unquote_plus), so pandas is 0.24 or older: for a list of plain
\* dicts the columns are the union of the keys, sorted; the index has one
\* label per dict; a key a dict lacks is NaN in its row.
json_normalize(records) ==
    IF Len(records) = 0 THEN DataFrame(<<>>, <<>>)
    ELSE LET keys == UNION {DOMAIN records[i] : i \in 1..Len(records)}
         IN DataFrame(Sorted(keys),
                      [i \in 1..Len(records) |->
                          [c \in keys |->
                              IF c \in DOMAIN records[i] THEN records[i][c] ELSE NaN]])

\* lines 166-171: entries.append(flatten_json(entry)) for every entry, then
\* the table; Raised when the loop over data["entry"] raises
BuildTable(data) ==
    LET v == GetEntry(data)
        it == IF v = Raised THEN Raised ELSE IterEntries(v)
    IN IF it = Raised THEN Raised
       ELSE json_normalize([i \in 1..Len(it.items) |-> flatten_json(it.items[i])])

----------------------------------------------------------------------------
(* Entry trees of bounded size *)

Names == {<<"a">>, <<"0">>, <<"a", "_", "0">>}
Scalars == {JNum(1), JBool(TRUE), JNull, JStr(<<"x", LF>>)}

RECURSIVE TreesOfSize(_), ItemLists(_), FieldLists(_, _)

\* the sequences of trees with n nodes in all
ItemLists(n) ==
    IF n = 0 THEN {<<>>}
    ELSE UNION {{<<t>> \o rest : t \in TreesOfSize(k), rest \in ItemLists(n - k)} : k \in 1..n}

\* the sequences of fields with n nodes in all, with distinct names outside used
FieldLists(n, used) ==
    IF n = 0 THEN {<<>>}
    ELSE UNION {UNION {{<<Field(nm, t)>> \o rest :
                          t \in TreesOfSize(k), rest \in FieldLists(n - k, used \cup {nm})} :
                       k \in 1..n} : nm \in Names \ used}

TreesOfSize(n) ==
    IF n = 1 THEN Scalars \cup {JArr(<<>>), JObj(<<>>)}
    ELSE {JArr(l) : l \in ItemLists(n - 1)} \cup {JObj(fs0) : fs0 \in FieldLists(n - 1, {})}

\* arg is an Entry of at most MaxNodes nodes.  The Entries are enumerated
\* by their first child, so that no set larger than the trees of
\* MaxNodes - 1 nodes is ever built.
ArgIsEntry ==
    \E n \in 1..MaxNodes :
        \/ n = 1 /\ arg \in TreesOfSize(1)
        \/ \E k \in 1..(n - 1) : \E t \in TreesOfSize(k), rest \in ItemLists(n - 1 - k) :
              arg = JArr(<<t>> \o rest)
        \/ \E k \in 1..(n - 1) : \E nm \in Names :
              \E t \in TreesOfSize(k), rest \in FieldLists(n - 1 - k, {nm}) :
                  arg = JObj(<<Field(nm, t)>> \o rest)

----------------------------------------------------------------------------
(* The worker: main, process_files and the calls it makes *)

NoFile == [t |-> "nofile"]
NoItem == [t |-> "noitem"]
Dir == [t |-> "dir"]

\* lines 10-13: the settings read from the environment
Settings == {"s3InputBucket", "s3OutputBucket", "SQSBatchQueue", "AWSRegion"}

KeyError == [t |-> "keyerror"]
Value(name) == [t |-> "value", of |-> name]

\* A plausible slip: os.environ.get(name), which returns None for a name
\* that is not set instead of raising.
EnvironGet(e, name) == IF name \in e THEN Value(name) ELSE JNull

\* os.environ[name]
EnvironItem(e, name) == IF name \in e THEN Value(name) ELSE KeyError

\* line 9
flattened_dir == <<"/hl7/flattened">>

\* the object keys the S3 event notifications name, as strings; they hold
\* no '+' and no '%', so urllib.unquote_plus leaves them as they are
Keys == {<<"a", ".", "x">>}

\* a message body: an S3 event notification naming an object key, or a body
\* json.loads or the ['Records'][0]['s3']['object']['key'] lookup fails on
S3Event(key) == [t |-> "s3event", key |-> key]
BadBody == [t |-> "badbody"]
Bodies == {S3Event(k) : k \in Keys} \cup {BadBody}

\* the documents an object of the input bucket may hold when it is fetched
EntryOf(v) == JObj(<<Field(EntryKey, v)>>)
Docs ==
    { EntryOf(JArr(<<JObj(<<Field(<<"a">>, JNum(1))>>)>>)),
      JObj(<<Field(<<"a">>, JNum(1))>>),
      EntryOf(JObj(<<Field(<<"a">>, JNum(1))>>)),
      EntryOf(JNum(1)),
      NotJson }

\* the documents flatten_file does not raise on
FlattenableDocs == {d \in Docs : json_load(d) # Raised /\ BuildTable(json_load(d)) # Raised}

RECURSIVE LastDot(_, _)
\* the index of the last '.' among the first i characters, 0 when none
LastDot(p, i) == IF i = 0 THEN 0 ELSE IF p[i] = "." THEN i ELSE LastDot(p, i - 1)

\* os.path.splitext(p)[0] for a name without directory separators: the name
\* up to its last dot, the whole name when it has no dot or only leading dots
SplitextRoot(p) ==
    LET d == LastDot(p, Len(p))
    IN IF d = 0 \/ \A i \in 1..(d - 1) : p[i] = "." THEN p ELSE SubSeq(p, 1, d - 1)

\* os.path.splitext(file)[0] + "tabular.csv"
OutFileName(file) == SplitextRoot(file) \o <<"tabular.csv">>

\* flattened_dir + '/' + outFileName
OutPath(outFileName) == flattened_dir \o <<"/">> \o outFileName

LocalPaths == Keys \cup {OutPath(OutFileName(k)) : k \in Keys}
OutputKeys == {<<"flattened/">> \o OutFileName(k) : k \in Keys}

Csv(table) == [t |-> "csv", table |-> table]
PartialCsv == [t |-> "partialcsv"]

Result(raised, files) == [raised |-> raised, fs |-> files]

\* s3.download_file(input_bucket_name, file, file): got is the document the
\* object holds, or Raised (no such key, transfer error); nothing is left on
\* disk when it raises
download_file(files, file, got) ==
    IF got = Raised THEN Result(TRUE, files)
    ELSE Result(FALSE, [files EXCEPT ![file] = got])

\* tabular.to_csv(outPath) inside try/except IOError: "ok" writes the file;
\* "noopen" is an IOError before the file is created (the file system is
\* left as it was); "partial" is an IOError while writing (disk full), which
\* leaves a truncated file.  The IOError is printed and swallowed.
WriteCsv(files, outPath, table, csv) ==
    CASE csv = "ok" -> [files EXCEPT ![outPath] = Csv(table)]
      [] csv = "noopen" -> files
      [] csv = "partial" -> [files EXCEPT ![outPath] = PartialCsv]

\* A plausible slip: a document without "entry" is treated as having no
\* entries instead of raising.
flatten_fileMissingEntryAsEmpty(files, file, outFileName, csv) ==
    LET data == json_load(files[file])
        table == IF data = Raised THEN Raised
                 ELSE IF GetEntry(data) = Raised THEN DataFrame(<<>>, <<>>)
                 ELSE BuildTable(data)
    IN IF table = Raised THEN Result(TRUE, files)
       ELSE Result(FALSE, WriteCsv(files, OutPath(outFileName), table, csv))

\* flatten_file(file, outFileName): raises when the file is not JSON or the
\* loop over data["entry"] raises; an IOError of to_csv does not raise
flatten_file(files, file, outFileName, csv) ==
    LET data == json_load(files[file])
        table == IF data = Raised THEN Raised ELSE BuildTable(data)
    IN IF table = Raised THEN Result(TRUE, files)
       ELSE Result(FALSE, WriteCsv(files, OutPath(outFileName), table, csv))

\* upload_file(outFileName): s3.upload_file raises when the local file does
\* not exist or the transfer fails (up = "fail"); otherwise the object
\* 'flattened/' + outFileName holds what the local file holds
upload_file(files, bucket, outFileName, up) ==
    IF files[OutPath(outFileName)] = NoFile \/ up = "fail"
    THEN [raised |-> TRUE, bucket |-> bucket]
    ELSE [raised |-> FALSE,
          bucket |-> [bucket EXCEPT ![<<"flattened/">> \o outFileName] =
                                        files[OutPath(outFileName)]]]

\* cleanup_file(file, outFileName): os.remove(file), then
\* os.remove(flattened_dir + '/' + outFileName); os.remove raises when the
\* file does not exist or the removal fails (rm names which of the two)
cleanup_file(files, file, outFileName, rm) ==
    IF files[file] = NoFile \/ rm = "first" THEN Result(TRUE, files)
    ELSE LET files1 == [files EXCEPT ![file] = NoFile]
         IN IF files1[OutPath(outFileName)] = NoFile \/ rm = "second"
            THEN Result(TRUE, files1)
            ELSE Result(FALSE, [files1 EXCEPT ![OutPath(outFileName)] = NoFile])

\* What the try block of process_files did for one message (lines 103-115):
\* the stage that raised ("none" when none did), the file system and the
\* output bucket it leaves, the document it downloaded, how to_csv ended
\* ("none" when it was not reached) and what it uploaded.
Outcome(failed, files, bucket, doc, csv, uploaded) ==
    [failed |-> failed, fs |-> files, bucket |-> bucket, doc |-> doc, csv |-> csv,
     uploaded |-> uploaded]

\* lines 113-115, once the download has succeeded: flatten_file, upload_file
\* and cleanup_file, each reached when the one before did not raise
AfterDownload(file, got, csv, up, rm, files, bucket) ==
    LET outFileName == OutFileName(file)
    IN LET fl == flatten_file(files, file, outFileName, csv)
       IN IF fl.raised THEN Outcome("flatten", fl.fs, bucket, got, "none", NoFile)
          ELSE LET ul == upload_file(fl.fs, bucket, outFileName, up)
               IN IF ul.raised THEN Outcome("upload", fl.fs, bucket, got, csv, NoFile)
                  ELSE LET cl == cleanup_file(fl.fs, file, outFileName, rm)
                       IN Outcome(IF cl.raised THEN "cleanup" ELSE "none", cl.fs, ul.bucket,
                                  got, csv, fl.fs[OutPath(outFileName)])

\* lines 104-115: json.loads and the key lookup raise on a bad body, then
\* the download, then the rest
TryBlock(body, got, csv, up, rm, files, bucket) ==
    IF body = BadBody THEN Outcome("parse", files, bucket, NoFile, "none", NoFile)
    ELSE LET dl == download_file(files, body.key, got)
         IN IF dl.raised THEN Outcome("download", dl.fs, bucket, NoFile, "none", NoFile)
            ELSE AfterDownload(body.key, got, csv, up, rm, dl.fs, bucket)

WorkerIdle ==
    /\ env = {}
    /\ pc = "idle"
    /\ msgs = <<>>
    /\ batch = <<>>
    /\ fs = <<>>
    /\ outBucket = <<>>
    /\ last = NoItem

Msgs == 1..NumMsgs
Unsent == [state |-> "unsent", body |-> BadBody]

\* The process is started in a new container: any of the settings may be
\* missing from its environment, nothing is on its disk.
Init ==
    /\ env \in SUBSET Settings
    /\ pc = "load"
    /\ msgs = [m \in Msgs |-> Unsent]
    /\ batch = <<>>
    /\ fs = [p \in LocalPaths \cup {flattened_dir} |-> NoFile]
    /\ outBucket = [k \in OutputKeys |-> NoFile]
    /\ last = NoItem
    /\ arg = NotCalled
    /\ ret = NotCalled

\* The module's top-level code, lines 9-15: the four os.environ lookups run
\* when the module is loaded, outside any try; a KeyError ends the process
\* before main is defined or called.
LoadModule ==
    /\ pc = "load"
    /\ pc' = IF \E name \in Settings : EnvironItem(env, name) = KeyError
             THEN "crashed" ELSE "start"
    /\ UNCHANGED <<msgs, batch, fs, outBucket, last, pureVars, env>>

\* The module is run as a script: `if __name__ == "__main__": main()` stands
\* at line 81, above the definitions of create_dirs and process_files, so
\* main's call of create_dirs raises NameError, which main prints and
\* re-raises.
RunAsScript ==
    /\ pc = "start"
    /\ pc' = "crashed"
    /\ UNCHANGED <<msgs, batch, fs, outBucket, last, pureVars, env>>

\* os.makedirs(dirs) when the directory does not exist
create_dirs(files) ==
    IF files[flattened_dir] = NoFile THEN [files EXCEPT ![flattened_dir] = Dir] ELSE files

\* main() called once the module is loaded: create_dirs, then the loop; an
\* exception of create_dirs (os.makedirs) is printed and re-raised.
CallMain ==
    /\ pc = "start"
    /\ \E ok \in BOOLEAN :
          /\ pc' = IF ok THEN "loop" ELSE "crashed"
          /\ fs' = IF ok THEN create_dirs(fs) ELSE fs
    /\ UNCHANGED <<msgs, batch, outBucket, last, pureVars, env>>

\* The environment: an S3 event notification (or another body) reaches the
\* queue.
SendMessage ==
    /\ \E m \in Msgs, b \in Bodies :
          /\ msgs[m].state = "unsent"
          /\ \A n \in Msgs : n < m => msgs[n].state # "unsent"
          /\ msgs' = [msgs EXCEPT ![m] = [state |-> "visible", body |-> b]]
    /\ UNCHANGED <<pc, batch, fs, outBucket, last, pureVars, env>>

MaxNumberOfMessages == 10

\* A plausible slip: the loop goes on only while the queue has something to
\* deliver (`while messages_left():`).
WhileSomethingVisible == \E m \in Msgs : msgs[m].state = "visible"

\* line 74, `while True:`, evaluated each time process_files has returned
WhileCondition == TRUE

\* where main is once process_files has returned
AfterProcessFiles == IF WhileCondition THEN "loop" ELSE "exited"

\* the sequences that list the elements of S, each once
Orderings(S) ==
    {q \in [1..Cardinality(S) -> S] : \A i, j \in 1..Cardinality(S) : q[i] = q[j] => i = j}

\* process_files calls get_messages_from_sqs: receive_messages returns at
\* most MaxNumberOfMessages of the visible messages, in any order, and hides
\* them; with none returned process_files returns and main calls it again.
Poll ==
    /\ pc = "loop" /\ batch = <<>>
    /\ \E S \in SUBSET {m \in Msgs : msgs[m].state = "visible"} :
          /\ Cardinality(S) <= MaxNumberOfMessages
          /\ \E q \in Orderings(S) :
                /\ batch' = q
                /\ msgs' = [m \in Msgs |->
                               IF m \in S THEN [msgs[m] EXCEPT !.state = "inflight"]
                               ELSE msgs[m]]
                /\ pc' = IF q = <<>> THEN AfterProcessFiles ELSE pc
    /\ UNCHANGED <<fs, outBucket, last, pureVars, env>>

\* get_queue_by_name or receive_messages raises: the exception leaves
\* process_files and main re-raises it.
PollFails ==
    /\ pc = "loop" /\ batch = <<>>
    /\ pc' = "crashed"
    /\ UNCHANGED <<msgs, batch, fs, outBucket, last, pureVars, env>>

\* A plausible slip: the failed message is left hidden until the timeout it
\* was received with runs out (the call is left out or passes it again).
change_visibilityKeepHidden(queue, m, timeout) == queue

\* message.change_visibility(VisibilityTimeout=timeout): with 0 the message
\* is visible at once, otherwise it stays hidden
change_visibility(queue, m, timeout) ==
    [queue EXCEPT ![m].state = IF timeout = 0 THEN "visible" ELSE "inflight"]

\* message.delete()
delete(queue, m) == [queue EXCEPT ![m].state = "deleted"]

\* A plausible slip: `break` in place of `continue`, which abandons the
\* messages of the batch that have not been handled.
ExceptBreak(rest) == <<>>

\* line 119, `continue`: the for loop goes on with the remaining messages
ExceptContinue(rest) == rest

\* One iteration of process_files' loop, for the next message of the batch:
\* the try block, then message.change_visibility(VisibilityTimeout=0) when
\* it raised and message.delete() when it did not.  What the environment
\* decides: the document the object holds when it is fetched (Raised: the
\* download fails), how to_csv ends, whether the upload goes through and
\* whether a removal fails.  A decision about a call that is not reached is
\* not enumerated (json_load raises on Raised only because no document is
\* fetched then).
ProcessMessage ==
    /\ pc = "loop" /\ batch # <<>>
    /\ LET m == Head(batch)
           body == msgs[m].body
           Flattens(got) == got \in FlattenableDocs
           Uploads(got, csv, up) ==
               /\ Flattens(got) /\ up = "ok"
               /\ (csv = "noopen" => fs[OutPath(OutFileName(body.key))] # NoFile)
       IN \E got \in IF body = BadBody THEN {Raised} ELSE Docs \cup {Raised} :
          \E csv \in IF Flattens(got) THEN {"ok", "noopen", "partial"} ELSE {"ok"} :
          \E up \in IF Flattens(got) THEN {"ok", "fail"} ELSE {"ok"} :
          \E rm \in IF Uploads(got, csv, up) THEN {"none", "first", "second"} ELSE {"none"} :
             \E r \in {TryBlock(body, got, csv, up, rm, fs, outBucket)} :
                /\ fs' = r.fs
                /\ outBucket' = r.bucket
                /\ msgs' = IF r.failed = "none" THEN delete(msgs, m)
                           ELSE change_visibility(msgs, m, 0)
                /\ last' = [msg |-> m, failed |-> r.failed, doc |-> r.doc,
                            csv |-> r.csv, uploaded |-> r.uploaded,
                            acked |-> r.failed = "none",
                            released |-> r.failed # "none"]
    /\ batch' = IF last'.failed = "none" THEN Tail(batch) ELSE ExceptContinue(Tail(batch))
    /\ pc' = IF batch' = <<>> THEN AfterProcessFiles ELSE pc
    /\ UNCHANGED <<pureVars, env>>

Next ==
    \/ LoadModule
    \/ RunAsScript
    \/ CallMain
    \/ SendMessage
    \/ Poll
    \/ PollFails
    \/ ProcessMessage

Spec == Init /\ [][Next]_vars

\* The loop is not suspended for ever between two batches: main calls
\* process_files again at once, a poll waits at most WaitTimeSeconds=20,
\* and polls do not for ever return nothing while messages are visible.
SpecLive == Spec /\ WF_vars(Poll)

----------------------------------------------------------------------------
(* SpecFlatten: flatten_json applied to every Entry of bounded size *)

InitFlatten == ArgIsEntry /\ ret = NotCalled /\ WorkerIdle

CallFlattenJson ==
    /\ ret = NotCalled
    /\ arg.t \notin {"entries", "entry"}
    /\ ret' = flatten_json(arg)
    /\ UNCHANGED <<arg, workerVars>>

NextFlatten == CallFlattenJson

SpecFlatten == InitFlatten /\ [][NextFlatten]_vars

----------------------------------------------------------------------------
(* What the claims about flatten_json speak of, computed from the Entry    *)
(* itself and not by flatten: its scalar leaves, each with the path of     *)
(* field names and array indices that leads to it.                         *)

RECURSIVE LeafPaths(_)
\* the set of <<path, leaf>>: path is the sequence of field names and
\* decimal array indices from the root down to the scalar leaf
LeafPaths(x) ==
    IF x.t = "obj"
    THEN UNION {{<<<<x.f[i].k>> \o lp[1], lp[2]>> : lp \in LeafPaths(x.f[i].v)} : i \in 1..Len(x.f)}
    ELSE IF x.t = "arr"
    THEN UNION {{<<<<PyStr(i - 1)>> \o lp[1], lp[2]>> : lp \in LeafPaths(x.a[i])} : i \in 1..Len(x.a)}
    ELSE {<<<<>>, x>>}

RECURSIVE Join(_)
\* '_'.join(path)
Join(path) ==
    IF Len(path) = 0 THEN <<>>
    ELSE IF Len(path) = 1 THEN path[1]
    ELSE path[1] \o <<"_">> \o Join(Tail(path))

\* the value the claims expect under a leaf's key: the leaf, a string leaf
\* without its line breaks
Stored(leaf) ==
    IF leaf.t = "str" THEN JStr(SelectSeq(leaf.s, LAMBDA c : c \notin {LF, CR})) ELSE leaf

FlattenCalled == ret # NotCalled /\ arg.t \notin {"entries", "entry"}

\* C3 (as claimed): the result of flatten_json has as many keys as the Entry
\* has scalar leaves, whatever the field names are.
C3_KeysEqualLeaves ==
    FlattenCalled => Cardinality(DOMAIN ret) = Cardinality(LeafPaths(arg))

\* C7 (as claimed): the result of flatten_json is exactly the mapping that
\* has, for every scalar leaf, the '_'-joined path of the leaf as a key,
\* mapped to the leaf's value (null leaves included; a string leaf without
\* its line breaks, as C6 says).
C7_ExactMapping ==
    FlattenCalled =>
        /\ DOMAIN ret = {Join(lp[1]) : lp \in LeafPaths(arg)}
        /\ \A lp \in LeafPaths(arg) : ret[Join(lp[1])] = Stored(lp[2])

IsEmptyColl(x) == (x.t = "obj" /\ Len(x.f) = 0) \/ (x.t = "arr" /\ Len(x.a) = 0)

RECURSIVE Prune(_)
\* the Entry with every object field whose value is an empty collection
\* removed (the remaining fields keep their order)
Prune(x) ==
    IF x.t = "obj"
    THEN LET kept == SelectSeq(x.f, LAMBDA fl : ~IsEmptyColl(fl.v))
         IN JObj([i \in 1..Len(kept) |-> Field(kept[i].k, Prune(kept[i].v))])
    ELSE IF x.t = "arr" THEN JArr([i \in 1..Len(x.a) |-> Prune(x.a[i])])
    ELSE x

\* C9: an empty object or array anywhere in the Entry contributes no key:
\* every key of the result is the joined path of a scalar leaf, an empty
\* Entry gives the empty mapping, and the result is the one of the Entry
\* with the fields holding empty collections taken out.
C9_EmptyCollectionsNoKey ==
    FlattenCalled =>
        /\ DOMAIN ret = {Join(lp[1]) : lp \in LeafPaths(arg)}
        /\ (IsEmptyColl(arg) => ret = EmptyDict)
        /\ ret = flatten_json(Prune(arg))

C9_Witness ==
    /\ FlattenCalled
    /\ arg.t = "obj" /\ Len(arg.f) = 2
    /\ arg.f[1].v = JArr(<<>>) /\ arg.f[2].v = JStr(<<"x", LF>>)
    /\ DOMAIN ret = {arg.f[2].k}

NoNested(x) == IsScalar(x) \/ (x.t = "obj" /\ \A i \in 1..Len(x.f) : IsScalar(x.f[i].v))
TopLevelNames(x) == IF x.t = "obj" THEN {x.f[i].k : i \in 1..Len(x.f)} ELSE {}

\* C10 (as claimed): for an Entry with no nested collection, a bare scalar
\* included, the keys of the result are the Entry's top-level field names.
C10_KeysAreFieldNames ==
    (FlattenCalled /\ NoNested(arg)) => DOMAIN ret = TopLevelNames(arg)

\* C10 (amended): for an object whose values are all scalars the keys of the
\* result are its field names; for a bare scalar the result has the single
\* key '' (the empty string), mapped to the stored scalar.
C10_KeysAreFieldNamesOfObjects ==
    (FlattenCalled /\ NoNested(arg)) =>
        IF arg.t = "obj" THEN DOMAIN ret = TopLevelNames(arg)
        ELSE ret = DictSet(EmptyDict, <<>>, Stored(arg))

C10_Witness ==
    /\ FlattenCalled
    /\ arg.t = "obj" /\ Len(arg.f) = 2 /\ NoNested(arg)
    /\ DOMAIN ret = {<<"a">>, <<"a", "_", "0">>}

----------------------------------------------------------------------------
(* SpecStrip: flatten_json applied to one scalar leaf, bare, under a field *)
(* and in a list; the string leaves range over every string of at most    *)
(* MaxStrLen characters, line feeds and carriage returns among them        *)

Chars == {"x", "y", LF, CR}

RECURSIVE StringsOfLen(_)
StringsOfLen(n) ==
    IF n = 0 THEN {<<>>} ELSE {<<c>> \o s : c \in Chars, s \in StringsOfLen(n - 1)}

Strings == UNION {StringsOfLen(n) : n \in 0..MaxStrLen}

StripLeaves == {JStr(s) : s \in Strings} \cup {JNum(1), JBool(TRUE), JBool(FALSE), JNull}

InitStrip ==
    /\ \E leaf \in StripLeaves :
          arg \in {leaf, JObj(<<Field(<<"a">>, leaf)>>), JArr(<<leaf>>)}
    /\ ret = NotCalled
    /\ WorkerIdle

NextStrip == CallFlattenJson

SpecStrip == InitStrip /\ [][NextStrip]_vars

\* C6: the value stored for a string leaf is the string with every line feed
\* and carriage return removed and the other characters in their order; a
\* number, a boolean or null is stored as it is.
C6_NewlinesStripped ==
    FlattenCalled =>
        \A lp \in LeafPaths(arg) :
            /\ Join(lp[1]) \in DOMAIN ret
            /\ ret[Join(lp[1])] = Stored(lp[2])

C6_Witness ==
    /\ FlattenCalled
    /\ arg = JObj(<<Field(<<"a">>, JStr(<<"x", CR, LF>>))>>)
    /\ ret = DictSet(EmptyDict, <<"a">>, JStr(<<"x">>))

----------------------------------------------------------------------------
(* SpecTable: the table flatten_file builds from a document whose "entry"  *)
(* is a list of at most MaxEntries entries, or is not a list               *)

TableEntries == TreesOfSize(1) \cup TreesOfSize(2)

RECURSIVE EntryListsOfLen(_)
EntryListsOfLen(n) ==
    IF n = 0 THEN {<<>>} ELSE {<<e>> \o l : e \in TableEntries, l \in EntryListsOfLen(n - 1)}

Document(entries) == JObj(<<Field(EntryKey, JArr(entries))>>)

\* values of "entry" that are not lists
NonListEntries ==
    {JObj(<<>>), JObj(<<Field(<<"a">>, JNum(1))>>), JStr(<<>>), JStr(<<"x", "y">>),
     JNum(1), JBool(TRUE), JNull}

InitTable ==
    /\ \/ \E n \in 0..MaxEntries : \E l \in EntryListsOfLen(n) : arg = [t |-> "entries", e |-> l]
       \/ \E v \in NonListEntries : arg = [t |-> "entry", v |-> v]
    /\ ret = NotCalled
    /\ WorkerIdle

CallBuildTable ==
    /\ ret = NotCalled
    /\ arg.t \in {"entries", "entry"}
    /\ ret' = BuildTable(IF arg.t = "entries" THEN Document(arg.e) ELSE EntryOf(arg.v))
    /\ UNCHANGED <<arg, workerVars>>

NextTable == CallBuildTable

SpecTable == InitTable /\ [][NextTable]_vars

TableBuilt == ret # NotCalled /\ arg.t = "entries"

RECURSIVE LeafKeysInOrder(_)
\* the keys of an Entry's leaves in the order the traversal reaches them
LeafKeysInOrder(x) ==
    IF x.t = "obj" THEN
        IF Len(x.f) = 0 THEN <<>>
        ELSE [i \in 1..Len(LeafKeysInOrder(x.f[1].v)) |->
                 IF Len(LeafKeysInOrder(x.f[1].v)[i]) = 0 THEN x.f[1].k
                 ELSE x.f[1].k \o <<"_">> \o LeafKeysInOrder(x.f[1].v)[i]]
             \o LeafKeysInOrder(JObj(Tail(x.f)))
    ELSE IF x.t = "arr" THEN
        LET n == Len(x.a)
        IN IF n = 0 THEN <<>>
           ELSE LeafKeysInOrder(JArr(SubSeq(x.a, 1, n - 1)))
                \o [i \in 1..Len(LeafKeysInOrder(x.a[n])) |->
                       IF Len(LeafKeysInOrder(x.a[n])[i]) = 0 THEN PyStr(n - 1)
                       ELSE PyStr(n - 1) \o <<"_">> \o LeafKeysInOrder(x.a[n])[i]]
    ELSE <<<<>>>>

RECURSIVE FirstSeen(_)
\* a sequence without its repetitions, each element at its first place
FirstSeen(seq) ==
    IF Len(seq) = 0 THEN <<>>
    ELSE LET n == Len(seq)
             before == FirstSeen(SubSeq(seq, 1, n - 1))
         IN IF \E i \in 1..(n - 1) : seq[i] = seq[n] THEN before ELSE before \o <<seq[n]>>

RECURSIVE Concat(_)
Concat(seqs) == IF Len(seqs) = 0 THEN <<>> ELSE Head(seqs) \o Concat(Tail(seqs))

KeysInFirstSeenOrder(entries) ==
    FirstSeen(Concat([i \in 1..Len(entries) |-> LeafKeysInOrder(entries[i])]))

KeysOf(entry) == {Join(lp[1]) : lp \in LeafPaths(entry)}
Range(seq) == {seq[i] : i \in 1..Len(seq)}

RowsAndCells ==
    /\ ret.t = "table"
    /\ Len(ret.rows) = Len(arg.e)
    /\ Range(ret.columns) = UNION {KeysOf(arg.e[i]) : i \in 1..Len(arg.e)}
    /\ \A i \in 1..Len(arg.e) :
          /\ DOMAIN ret.rows[i] = Range(ret.columns)
          /\ \A c \in Range(ret.columns) :
                IF c \in KeysOf(arg.e[i])
                THEN ret.rows[i][c] = flatten_json(arg.e[i])[c]
                ELSE ret.rows[i][c] = NaN

----------------------------------------------------------------------------
(* SpecPure: successive calls of flatten_json in one process.  arg is the   *)
(* sequence of the objects passed so far, as they are after the calls, and  *)
(* ret the sequence of the dictionaries returned.                           *)

PureInputs == TreesOfSize(1) \cup TreesOfSize(2)

InitPure == arg = <<>> /\ ret = <<>> /\ WorkerIdle

\* one more call: flatten only reads x (`for a in x`, x[a], x.replace, which
\* returns a new string), so the objects passed are left as they were
CallAgain ==
    /\ Len(arg) < MaxCalls
    /\ \E y \in PureInputs :
          /\ arg' = Append(arg, y)
          /\ ret' = Append(ret, flatten_json(y))
    /\ UNCHANGED workerVars

NextPure == CallAgain

SpecPure == InitPure /\ [][NextPure]_vars

----------------------------------------------------------------------------
(* Claims about process_files (specification Spec) *)

TheKey == CHOOSE k \in Keys : TRUE
CsvPath == OutPath(OutFileName(TheKey))

\* a step of ProcessMessage: the only action that takes the head off the batch
Handled == batch # <<>> /\ batch' = Tail(batch)

\* C1 (as claimed): every handled item is either acknowledged or released,
\* never both, and it is acknowledged only if every stage completed without
\* error; a failure to write the CSV file leads to release.
C1_AckOnlyWithoutError ==
    last # NoItem =>
        /\ last.acked # last.released
        /\ last.acked => (last.failed = "none" /\ last.csv = "ok")
        /\ last.csv \in {"noopen", "partial"} => last.released

\* C2 (as claimed): once an item is resolved, acknowledged or released,
\* neither its downloaded file nor its CSV file is left on the local disk.
C2_TempFilesRemoved ==
    (last # NoItem /\ last.failed # "parse") =>
        (fs[TheKey] = NoFile /\ fs[CsvPath] = NoFile)

HasNoEntryField(doc) == doc.t = "obj" /\ GetEntry(doc) = Raised

\* C4: when the downloaded document has no top-level "entry" field,
\* flatten_file raises before to_csv is reached: the CSV file and the output
\* bucket are left as they were, and the message is released (made visible
\* again), not deleted.
C4_NoEntryReleased ==
    [][(Handled /\ HasNoEntryField(last'.doc)) =>
           /\ last'.failed = "flatten" /\ last'.csv = "none" /\ last'.uploaded = NoFile
           /\ fs'[CsvPath] = fs[CsvPath]
           /\ outBucket' = outBucket
           /\ last'.released /\ ~last'.acked
           /\ msgs'[Head(batch)].state = "visible"]_vars

C4_Witness ==
    /\ last # NoItem
    /\ HasNoEntryField(last.doc)
    /\ fs[TheKey] = last.doc
    /\ last.failed = "flatten" /\ last.released
    /\ msgs[last.msg].state = "visible"

HasNonListEntry(doc) == doc.t = "obj" /\ GetEntry(doc) # Raised /\ GetEntry(doc).t # "arr"

\* C5 (as claimed): when "entry" is present and is not an array, extraction
\* fails: to_csv is not reached, nothing is uploaded, and the message is
\* released, not acknowledged.
C5_NonListEntryReleased ==
    (last # NoItem /\ HasNonListEntry(last.doc)) =>
        /\ last.failed = "flatten" /\ last.csv = "none" /\ last.uploaded = NoFile
        /\ last.released /\ ~last.acked

\* C12: when one of the four settings is missing from the environment the
\* process ends while the module is loaded: main never runs, the local
\* directory is not created, the queue is never polled, no message is
\* received, deleted or released, and the ended process does not start again.
C12_MissingSettingIsFatal ==
    /\ [](~(Settings \subseteq env) =>
             /\ pc \in {"load", "crashed"}
             /\ fs[flattened_dir] = NoFile
             /\ batch = <<>> /\ last = NoItem
             /\ \A m \in Msgs : msgs[m].state \in {"unsent", "visible"})
    /\ [][pc = "crashed" => pc' = "crashed"]_vars

C12_Witness ==
    /\ env = Settings \ {"AWSRegion"}
    /\ pc = "crashed"
    /\ \A m \in Msgs : msgs[m].state = "visible"

C14_ReleasedVisibleAckedGone ==
    /\ [][(Handled /\ last'.released) => msgs'[Head(batch)].state = "visible"]_vars
    /\ [][\A m \in Msgs :
            (msgs[m].state = "visible" /\ msgs'[m].state # "visible") =>
                (pc = "loop" /\ batch = <<>> /\ m \in Range(batch'))]_vars
    /\ [](\A m \in Msgs :
            (pc = "loop" /\ batch = <<>> /\ msgs[m].state = "visible") =>
                ENABLED (Poll /\ m \in Range(batch')))
    /\ [][(Handled /\ last'.acked) => msgs'[Head(batch)].state = "deleted"]_vars
    /\ [][\A m \in Msgs :
            msgs[m].state = "deleted" =>
                (msgs'[m].state = "deleted" /\ m \notin Range(batch'))]_vars

\* the second message was acknowledged and is gone; the first was released
\* by the last iteration and the poll after it has received it again, alone
C14_Witness ==
    /\ msgs[2].state = "deleted"
    /\ last # NoItem /\ last.msg = 1 /\ last.released
    /\ msgs[1].state = "inflight" /\ batch = <<1>>

C16_UploadedThenAcked ==
    (last # NoItem /\ last.uploaded # NoFile) => (last.acked /\ ~last.released)

\* C17 (as claimed): what upload_file sends is the CSV file written in the
\* same iteration from the document downloaded in it (whole, or cut short
\* when the write failed half-way), never a file an earlier iteration left.
C17_UploadIsThisCyclesCsv ==
    (last # NoItem /\ last.uploaded # NoFile) =>
        \/ last.uploaded = Csv(BuildTable(json_load(last.doc)))
        \/ (last.csv = "partial" /\ last.uploaded = PartialCsv)

====
